---------------------------- MODULE Spec2Model ----------------------------
(***************************************************************************)
(* Model of the RGBmatrixPanelCPLD driver (firmware/RGBmatrixPanelCPLD.cpp) *)
(* : the bit-plane framebuffer, the pixel encoder, the double buffer        *)
(* controller and the timer-driven refresh state machine.                   *)
(*                                                                          *)
(* Memory is one allocation, addressed from 0; front_buffer and             *)
(* back_buffer are addresses in it.  Every handler of the driver is one     *)
(* action.                                                                  *)
(***************************************************************************)
EXTENDS Integers, Sequences, FiniteSets, TLC

(***************************************************************************)
(* Bounds of the model.                                                     *)
(***************************************************************************)
\* Foreground framebuffer writes (drawPixel, fillScreen) in one run of SpecDraw.
MaxOps == 2
\* Timer ticks in one run of SpecBegin and SpecDraw (the refresh
\* specification is cyclic and needs no bound).  The first tick after begin()
\* is the frame-boundary tick, the one that honours a swap request.
MaxTicks == 1

(***************************************************************************)
(* Program constants.                                                       *)
(***************************************************************************)
\* drawPixel writes planes 0..3 only (its last block is "depth > 3").
MaxDepth == 4
\* The cursor wraps at row 15.
LastRow == 15
\* resetPeriod_SIT(74 * ...): the base period in microseconds.
TBase == 74
\* displayTimer.begin(refreshISR, 250, ...): the period armed by begin().
FirstPeriod == 250
\* Mutant of KeepUpper: & 0x07, the mask loses bits 6 and 7.
KeepUpperNoControl == 199 - 192

\* & 0xC7: keeps bits 6, 7 and the lower triple, clears the upper triple.
KeepUpper == 199
\* Mutant of KeepLower: & 0xC0, the mask clears the upper triple too.
KeepLowerBothTriples == 248 - 56

\* & 0xF8: keeps bits 6, 7 and the upper triple, clears the lower triple.
KeepLower == 248
\* No timer claimed.
NoTimer == 0

\* The timers begin() tries, in the order it tries them.
TimerOrder == <<3, 4, 5, 6, 7>>

(***************************************************************************)
(* Bit arithmetic on unsigned integers.                                     *)
(***************************************************************************)
Pow2(n) == 2 ^ n

\* ((c & (1 << n)) >> n)
Bit(c, n) == (c \div Pow2(n)) % 2

\* v << n
Shl(v, n) == v * Pow2(n)

RECURSIVE BitAndN(_, _, _)
BitAndN(a, b, n) ==
    IF n = 0 THEN 0
    ELSE (a % 2) * (b % 2) + 2 * BitAndN(a \div 2, b \div 2, n - 1)

RECURSIVE BitOrN(_, _, _)
BitOrN(a, b, n) ==
    IF n = 0 THEN 0
    ELSE (IF (a % 2) + (b % 2) > 0 THEN 1 ELSE 0)
         + 2 * BitOrN(a \div 2, b \div 2, n - 1)

\* a & b and a | b on a uint8_t
And8(a, b) == BitAndN(a, b, 8)
Or8(a, b) == BitOrN(a, b, 8)

(***************************************************************************)
(* Geometry, as the constructors compute it.                                *)
(***************************************************************************)
\* (x >> 5) << 5
Trunc32(x) == (x \div 32) * 32

\* row_size = width * (height >> 5)
RowSizeOf(w, h) == w * (h \div 32)

\* plane_size = width * (height >> 1)
PlaneSizeOf(w, h) == w * (h \div 2)

\* init(): bufSize
AllocSize(d, ps, dbl) == IF dbl THEN 2 * d * ps ELSE d * ps

(***************************************************************************)
(* Memory.  The allocation is stored row by row: m[r][k] is the byte at     *)
(* address r*rs + k, rs being row_size (the buffers and the planes start at *)
(* multiples of row_size).                                                  *)
(***************************************************************************)
\* *(m + a)
Load(m, rs, a) == m[a \div rs][a % rs]

\* *(m + a) = v
Store(m, rs, a, v) == [m EXCEPT ![a \div rs][a % rs] = v]

\* memset(m + start, val, n)
MemSet(m, rs, start, val, n) ==
    [r \in DOMAIN m |->
        IF r * rs >= start /\ (r + 1) * rs <= start + n
        THEN [k \in 0 .. (rs - 1) |-> val]
        ELSE IF (r + 1) * rs <= start \/ r * rs >= start + n
        THEN m[r]
        ELSE [k \in 0 .. (rs - 1) |->
                 IF r * rs + k >= start /\ r * rs + k < start + n
                 THEN val ELSE m[r][k]]]

(***************************************************************************)
(* fillScreen, on a memory m with the back buffer at address back.          *)
(***************************************************************************)
\* The byte fillScreen's loop computes for its index p.
FillColor(c, p) ==
    LET lower == Or8(Or8(Shl(Bit(c, 12 + p), 2), Shl(Bit(c, 7 + p), 1)),
                     Bit(c, 1 + p))
    IN  Or8(lower, Shl(lower, 3) % 256)

\* The plane fillScreen's loop fills for its index p.
FillPlane(d, p) == d - p - 1

RECURSIVE FillLoop(_, _, _, _, _, _, _, _)
\* for (p = from; p < d; p++) memset(back + (d-p-1)*ps, color, bufSize)
FillLoop(m, back, c, d, rs, ps, bufSize, from) ==
    IF from >= d THEN m
    ELSE FillLoop(MemSet(m, rs, back + FillPlane(d, from) * ps,
                         FillColor(c, from), bufSize),
                  back, c, d, rs, ps, bufSize, from + 1)

\* The address fillScreen's stamp loops write for their index i.
StampAddr(back, rs, i) == back + (rs * i) - 1

\* for (i = 1; i <= d*16; i++) *(back + row_size*i - 1) |= (1 << bit)
\* The addresses are one row apart, so a row of the memory holds at most one
\* of them: at column col, written by the loop at index i.
StampLoop(m, back, d, rs, bit) ==
    [r \in DOMAIN m |->
        LET col == (back + rs - 1) % rs
            i == ((r * rs + col + 1) - back) \div rs
        IN  IF i >= 1 /\ i <= d * 16 /\ StampAddr(back, rs, i) = r * rs + col
            THEN [m[r] EXCEPT ![col] = Or8(@, Shl(1, bit))]
            ELSE m[r]]

\* fillScreen(c) for width w and height h: bufSize = width*(height>>1)
FillScreenMem(m, back, c, d, w, h) ==
    LET rs == RowSizeOf(w, h)
        ps == PlaneSizeOf(w, h)
        filled == FillLoop(m, back, c, d, rs, ps, w * (h \div 2), 0)
    IN  StampLoop(StampLoop(filled, back, d, rs, 6), back, d, rs, 7)

(***************************************************************************)
(* State.                                                                   *)
(***************************************************************************)
VARIABLES
    \* fields of RGBmatrixPanelCPLD
    width, height, depth, double_buffer_enabled, row_size, plane_size,
    initStatus, front_buffer, back_buffer, swap_requested, resync_flag,
    row, plane, rowComplete,
    \* the allocation front_buffer and back_buffer point into
    mem,
    \* the collaborators: the claimed timer and its programmed period, the
    \* levels of the two pins, the serial burst in flight (<<>> when none)
    timer, period, oe_level, clr_level, dma,
    \* "constructed" until begin() has run, then "begun"
    phase,
    \* history: the collaborator calls of the last run of updateDisplay (of
    \* init before the first)
    trace,
    \* history: the timers begin() found held by others, the timers it
    \* tried, and what it returned
    held, tried, beginRet,
    \* history: the periods programmed since the last frame-start tick, and
    \* the front pointers its bursts were sourced from
    periods, frameSrc,
    \* the pixel the foreground draws in this run
    px, py,
    \* history: the last drawPixel / fillScreen call, as
    \* <<name, x, y, c, back_buffer>>, and the writes it made, each as
    \* <<address, mask kept, bits set>>
    lastOp, written,
    \* the foreground call in progress, when its steps are taken one by one
    fg,
    \* counters bounding a run of SpecDraw
    nOps, nTicks

cfgVars == <<width, height, depth, double_buffer_enabled, row_size,
             plane_size, initStatus>>
ptrVars == <<front_buffer, back_buffer>>
curVars == <<row, plane>>
hwVars == <<timer, period, oe_level, clr_level, dma>>
beginVars == <<phase, held, tried, beginRet>>
frameVars == <<periods, frameSrc>>
drawVars == <<px, py, lastOp, written, nOps, fg>>
vars == <<cfgVars, ptrVars, curVars, hwVars, beginVars, frameVars, drawVars,
          swap_requested, resync_flag, rowComplete, mem, trace, nTicks>>

(***************************************************************************)
(* The collaborator calls a handler makes, as <<kind, a, b>>.                *)
(***************************************************************************)
EvOE(level) == <<"oe", level, 0>>
EvClr(level) == <<"clr", level, 0>>
EvSwap(f) == <<"swap", f, 0>>
EvTimer(per) == <<"timer", per, 0>>
EvCursor(r, p) == <<"cursor", r, p>>
EvSpi(addr, len) == <<"spi", addr, len>>

NoOp == <<"none", 0, 0, 0, 0>>

\* No foreground call in progress.  pc is the step the call is at, p its
\* loop index, c its colour, w the write it has prepared as <<address, mask
\* kept, bits set>>; history: bufs, the buffers the call has written so
\* far; wr, the byte range <<first, length>> of its last write; nw, the
\* number of its writes.
FgIdle ==
    [pc |-> "idle", p |-> 0, c |-> 0, w |-> <<0, 0, 0>>, bufs |-> {},
     wr |-> <<0, 0>>, nw |-> 0]

(***************************************************************************)
(* Construction: the constructors and init().                               *)
(***************************************************************************)
\* Constructor arguments (x, y): panels of 32 columns, one or two stacked.
PanelSizes == {<<32, 32>>, <<32, 64>>}

\* What malloc may hand out: the allocation is not initialised.
Garbage == {0, 255}

\* init(): the memory after the fills, for an allocation of garbage bytes g.
\* Double-buffered: fillScreen(0) on the upper half (the first back buffer),
\* the pointers are exchanged, fillScreen(0) on the lower half.
InitMem(g, d, w, h, dbl) ==
    LET ps == PlaneSizeOf(w, h)
        rs == RowSizeOf(w, h)
        raw == [r \in 0 .. ((AllocSize(d, ps, dbl) \div rs) - 1) |->
                   [k \in 0 .. (rs - 1) |-> g]]
    IN  IF dbl
        THEN FillScreenMem(FillScreenMem(raw, d * ps, 0, d, w, h),
                           0, 0, d, w, h)
        ELSE FillScreenMem(raw, 0, 0, d, w, h)

\* init(): front_buffer and back_buffer on return, for an allocation at 0.
\* Mutant of InitFront: the exchange in init() is left out of account, the
\* front pointer stays at the start of the allocation.
InitFrontAtBase(d, ps, dbl) == 0

InitFront(d, ps, dbl) == IF dbl THEN (AllocSize(d, ps, dbl) \div 2) ELSE 0
InitBack(d, ps, dbl) == 0

Construct(x, y, d, dbl, g) ==
    LET w == Trunc32(x)
        h == Trunc32(y)
        rs == RowSizeOf(w, h)
        ps == PlaneSizeOf(w, h)
    IN  /\ width = w
        /\ height = h
        /\ row_size = rs
        /\ plane_size = ps
        /\ depth = d
        /\ double_buffer_enabled = dbl
        /\ mem = InitMem(g, d, w, h, dbl)
        /\ front_buffer = InitFront(d, ps, dbl)
        /\ back_buffer = InitBack(d, ps, dbl)
        /\ swap_requested = FALSE
        /\ row = LastRow
        /\ plane = d - 1
        /\ initStatus = 0
        /\ clr_level = 1
        /\ oe_level = 0
        /\ trace = <<EvClr(1), EvClr(0), EvClr(1), EvOE(0)>>

Init ==
    /\ \E sz \in PanelSizes, d \in 1 .. MaxDepth, dbl \in BOOLEAN, g \in Garbage :
          Construct(sz[1], sz[2], d, dbl, g)
    /\ px = 0
    /\ py = 0
    \* the constructors set neither resync_flag nor rowComplete
    /\ resync_flag \in BOOLEAN
    /\ rowComplete \in Garbage
    /\ timer = NoTimer
    /\ period = 0
    /\ dma = <<>>
    /\ phase = "constructed"
    /\ held = {}
    /\ tried = <<>>
    /\ beginRet = "none"
    /\ periods = <<>>
    /\ frameSrc = {}
    /\ lastOp = NoOp
    /\ written = <<>>
    /\ nOps = 0
    /\ fg = FgIdle
    /\ nTicks = 0

(***************************************************************************)
(* drawPixel.                                                               *)
(***************************************************************************)
\* if ((y >= 0) && (x >= 0) && (y < height) && (x < width))
InBounds(x, y) == (y >= 0) /\ (x >= 0) /\ (y < height) /\ (x < width)

\* panel_row = y >> 5
PanelRow(y) == y \div 32

\* Mutant of MapYInt: the row is not flipped on an odd panel row.
MapYIntNoFlip(y) == y % 32

\* y_int after the topology step: y % 32, or 31 - y % 32 on an odd panel row
MapYInt(y) ==
    IF (PanelRow(y) % 2) = 0 THEN y % 32 ELSE 31 - (y % 32)

\* Mutant of MapX: the column is not mirrored on an odd panel row.
MapXNoFlip(x, y) == (x % width) + PanelRow(y) * width

\* x after the topology step
MapX(x, y) ==
    IF (PanelRow(y) % 2) = 0
    THEN (x % width) + PanelRow(y) * width
    ELSE ((width - 1) - (x % width)) + PanelRow(y) * width

\* The triple drawPixel ORs into plane p: red from bit 15-p, green from bit
\* 10-p, blue from bit 4-p, shifted to bits sh+2, sh+1, sh.
PlaneBits(c, p, sh) ==
    Or8(Or8(Shl(Bit(c, 15 - p), sh + 2), Shl(Bit(c, 10 - p), sh + 1)),
        Shl(Bit(c, 4 - p), sh))

\* The write drawPixel makes to plane p: <<address, mask kept, bits set>>.
PlaneWrite(x, y, c, p) ==
    LET yi == MapYInt(y)
        xc == MapX(x, y)
    IN  IF yi < 16
        THEN <<back_buffer + (p * plane_size) + (yi * row_size) + xc,
               KeepUpper, PlaneBits(c, p, 3)>>
        ELSE <<back_buffer + (p * plane_size) + ((yi - 16) * row_size) + xc,
               KeepLower, PlaneBits(c, p, 0)>>

\* The planes drawPixel writes: its blocks "if (depth > 0)" .. "if (depth > 3)".
DrawPlanes == {p \in 0 .. (MaxDepth - 1) : depth > p}

\* The writes of drawPixel(x, y, c), in the order it makes them.
DrawPixelWrites(x, y, c) ==
    IF ~InBounds(x, y) THEN <<>>
    ELSE [i \in 1 .. Cardinality(DrawPlanes) |-> PlaneWrite(x, y, c, i - 1)]

\* Mutant of ApplyWrite: the old triple is not masked out.
ApplyWriteOrOnly(m, w) ==
    Store(m, row_size, w[1], Or8(Load(m, row_size, w[1]), w[3]))

\* *p = (*p & mask) | bits
ApplyWrite(m, w) ==
    Store(m, row_size, w[1], Or8(And8(Load(m, row_size, w[1]), w[2]), w[3]))

RECURSIVE ApplyWrites(_, _)
ApplyWrites(m, ws) ==
    IF ws = <<>> THEN m ELSE ApplyWrites(ApplyWrite(m, Head(ws)), Tail(ws))

DrawPixel(x, y, c) ==
    /\ nOps < MaxOps
    /\ nOps' = nOps + 1
    /\ mem' = ApplyWrites(mem, DrawPixelWrites(x, y, c))
    /\ written' = DrawPixelWrites(x, y, c)
    /\ lastOp' = <<"drawPixel", x, y, c, back_buffer>>
    /\ UNCHANGED <<cfgVars, ptrVars, curVars, hwVars, beginVars, frameVars,
                   px, py, fg, swap_requested, resync_flag, rowComplete, trace,
                   nTicks>>

FillScreen(c) ==
    /\ nOps < MaxOps
    /\ nOps' = nOps + 1
    /\ mem' = FillScreenMem(mem, back_buffer, c, depth, width, height)
    /\ written' = <<>>
    /\ lastOp' = <<"fillScreen", 0, 0, c, back_buffer>>
    /\ UNCHANGED <<cfgVars, ptrVars, curVars, hwVars, beginVars, frameVars,
                   px, py, fg, swap_requested, resync_flag, rowComplete, trace,
                   nTicks>>

(***************************************************************************)
(* begin().                                                                 *)
(***************************************************************************)
\* The timers other drivers may hold when begin() runs.
AllTimers == {TimerOrder[i] : i \in 1 .. Len(TimerOrder)}

\* In the refresh specification: none held, or all of them.
InUseSets == {{}, AllTimers}

RECURSIVE TryFrom(_, _)
\* The displayTimer.begin calls from the i-th on: each returns true, and
\* begin() returns, when its timer is free.
TryFrom(i, inUse) ==
    IF i > Len(TimerOrder) THEN <<>>
    ELSE IF TimerOrder[i] \notin inUse THEN <<TimerOrder[i]>>
    ELSE <<TimerOrder[i]>> \o TryFrom(i + 1, inUse)

TryTimers(inUse) == TryFrom(1, inUse)

ClaimedTimer(inUse) ==
    LET t == TryTimers(inUse)
    IN  IF t # <<>> /\ t[Len(t)] \notin inUse THEN t[Len(t)] ELSE NoTimer

\* void begin(void): there is no return value.
BeginReturn(claimed) == "void"

Begin(inUse) ==
    /\ phase = "constructed"
    /\ phase' = "begun"
    /\ rowComplete' = 0
    /\ row' = LastRow
    /\ plane' = depth - 1
    /\ resync_flag' = TRUE
    /\ held' = inUse
    /\ tried' = TryTimers(inUse)
    /\ timer' = ClaimedTimer(inUse)
    /\ period' = IF ClaimedTimer(inUse) # NoTimer THEN FirstPeriod ELSE period
    /\ beginRet' = BeginReturn(ClaimedTimer(inUse))
    /\ UNCHANGED <<cfgVars, ptrVars, frameVars, drawVars, swap_requested, mem, trace,
                   oe_level, clr_level, dma, nTicks>>

(***************************************************************************)
(* swapBuffers() and resync().                                              *)
(***************************************************************************)
SwapBuffers ==
    /\ swap_requested' = IF double_buffer_enabled THEN TRUE ELSE FALSE
    /\ UNCHANGED <<cfgVars, ptrVars, curVars, hwVars, beginVars, frameVars,
                   drawVars, resync_flag, rowComplete, mem, trace, nTicks>>

Resync ==
    /\ resync_flag' = TRUE
    /\ UNCHANGED <<cfgVars, ptrVars, curVars, hwVars, beginVars, frameVars,
                   drawVars, swap_requested, rowComplete, mem, trace, nTicks>>

(***************************************************************************)
(* updateDisplay(), run by refreshISR on every timer tick.                  *)
(***************************************************************************)
\* Mutant of FrameBoundary: the plane is not looked at.
FrameBoundaryRowOnly == row = LastRow

\* if (row == 15 && plane == (depth-1))
FrameBoundary == row = LastRow /\ plane = depth - 1

\* 74 * (1 << (depth - plane - 1)), with the cursor as the tick finds it
TimerPeriod == TBase * Pow2(depth - plane - 1)

\* The cursor after the advance step.
NextRow == IF row = LastRow THEN 0 ELSE row + 1

\* Mutant of NextPlane: the plane does not wrap after the last one.
NextPlaneNoWrap == IF row = LastRow THEN plane + 1 ELSE plane

NextPlane ==
    IF row = LastRow
    THEN (IF plane = depth - 1 THEN 0 ELSE plane + 1)
    ELSE plane

\* Mutant of BurstAddr: the front pointer as the tick found it.
BurstAddrStale(f, p, r) == front_buffer + (p * plane_size) + (r * row_size)

\* front_buffer + (plane*plane_size) + (row*row_size)
BurstAddr(f, p, r) == f + (p * plane_size) + (r * row_size)

\* The length SPI.transfer is given.
BurstLen == row_size

\* The buffer of the allocation that holds address a.
BufferOf(a) == (a \div (depth * plane_size)) * (depth * plane_size)

\* The tick that finds the cursor at (15, depth-1) starts a frame.
FrameStartTick == row = 15 /\ plane = depth - 1

\* Mutant of DoResync: the pulse is not held back to the frame boundary.
DoResyncAnyTick == resync_flag

\* if (resync_flag), inside the frame-boundary block
DoResync == FrameBoundary /\ resync_flag

\* if (swap_requested), inside the frame-boundary block
DoSwap == FrameBoundary /\ swap_requested

\* Mutant of FrontAfter: the exchange does not store the front pointer.
FrontAfterKept == front_buffer

\* temp = front_buffer; front_buffer = back_buffer; back_buffer = temp
FrontAfter == IF DoSwap THEN back_buffer ELSE front_buffer
BackAfter == IF DoSwap THEN front_buffer ELSE back_buffer

\* Mutant of TickTrace: the panel is lit again before the burst is started.
TickTraceLitEarly ==
    <<EvOE(1)>>
    \o (IF DoResync THEN <<EvClr(0), EvClr(1)>> ELSE <<>>)
    \o (IF DoSwap THEN <<EvSwap(FrontAfter)>> ELSE <<>>)
    \o <<EvTimer(TimerPeriod), EvCursor(NextRow, NextPlane), EvOE(0),
         EvSpi(BurstAddr(FrontAfter, NextPlane, NextRow), BurstLen)>>

\* The collaborator calls of updateDisplay, in the order it makes them.
TickTrace ==
    <<EvOE(1)>>
    \o (IF DoResync THEN <<EvClr(0), EvClr(1)>> ELSE <<>>)
    \o (IF DoSwap THEN <<EvSwap(FrontAfter)>> ELSE <<>>)
    \o <<EvTimer(TimerPeriod), EvCursor(NextRow, NextPlane),
         EvSpi(BurstAddr(FrontAfter, NextPlane, NextRow), BurstLen),
         EvOE(0)>>

UpdateDisplay ==
    /\ timer # NoTimer
    /\ resync_flag' = IF DoResync THEN FALSE ELSE resync_flag
    /\ swap_requested' = IF DoSwap THEN FALSE ELSE swap_requested
    /\ front_buffer' = FrontAfter
    /\ back_buffer' = BackAfter
    /\ period' = TimerPeriod
    /\ row' = NextRow
    /\ plane' = NextPlane
    /\ dma' = <<BurstAddr(FrontAfter, NextPlane, NextRow), BurstLen>>
    /\ oe_level' = 0
    /\ clr_level' = clr_level
    /\ trace' = TickTrace
    /\ periods' = IF FrameStartTick THEN <<TimerPeriod>>
                  ELSE Append(periods, TimerPeriod)
    /\ frameSrc' =
          LET src == BufferOf(BurstAddr(FrontAfter, NextPlane, NextRow))
          IN  IF FrameStartTick THEN {src} ELSE frameSrc \cup {src}
    /\ UNCHANGED <<cfgVars, timer, beginVars, drawVars, rowComplete, mem>>

Tick == UpdateDisplay /\ UNCHANGED nTicks

(***************************************************************************)
(* rowCompleteCallback(), run when the serial burst has been sent.          *)
(***************************************************************************)
RowComplete ==
    /\ dma # <<>>
    /\ dma' = <<>>
    /\ rowComplete' = 1
    /\ UNCHANGED <<cfgVars, ptrVars, curVars, timer, period, oe_level,
                   clr_level, beginVars, frameVars, drawVars, swap_requested,
                   resync_flag, mem, trace, nTicks>>

(***************************************************************************)
(* The refresh engine: begin(), the foreground requests, the timer ticks.   *)
(***************************************************************************)
Next ==
    \/ \E inUse \in InUseSets : Begin(inUse)
    \/ SwapBuffers
    \/ Resync
    \/ Tick
    \/ RowComplete

Spec == Init /\ [][Next]_vars

\* The claimed timer keeps firing.
SpecLive == Spec /\ WF_vars(Tick)

(***************************************************************************)
(* begin() against every set of held timers, followed by a few ticks.       *)
(***************************************************************************)
TickBounded ==
    /\ nTicks < MaxTicks
    /\ UpdateDisplay
    /\ nTicks' = nTicks + 1

NextBegin ==
    \/ \E inUse \in SUBSET AllTimers : Begin(inUse)
    \/ Resync
    \/ TickBounded
    \/ RowComplete

SpecBegin == Init /\ [][NextBegin]_vars

(***************************************************************************)
(* The pixel encoder: after construction and begin() with TIMER3 free, the  *)
(* foreground draws one pixel and fills, in several colours, between swap   *)
(* requests and the first ticks.                                            *)
(***************************************************************************)
\* The pixels drawn: the corners of each half of each panel, and the
\* nearest coordinates out of bounds.
DrawPoints(w, h) ==
    {<<0, 0>>, <<w - 1, 15>>, <<w - 1, 16>>, <<12, 31>>}
    \cup (IF h >= 64
          THEN {<<0, 32>>, <<w - 1, 47>>, <<5, 48>>, <<0, 63>>}
          ELSE {})
    \cup {<<0 - 1, 0>>, <<w, 0>>, <<0, 0 - 1>>, <<0, h>>}

\* Colours drawn: 37510 = 0x9286 has the red bit in plane 0, the green bit
\* in plane 1, the blue bit in plane 2 and all three in plane 3; 28025 =
\* 0x6D79 has the other plane bits and the bits no plane uses.
DrawColours == {37510, 28025}

\* Colour filled: 0x9286.
FillColours == {37510}

InitDraw ==
    /\ \E sz \in PanelSizes, d \in 1 .. MaxDepth, dbl \in BOOLEAN, g \in Garbage :
          /\ Construct(sz[1], sz[2], d, dbl, g)
          /\ \E pt \in DrawPoints(Trunc32(sz[1]), Trunc32(sz[2])) :
                px = pt[1] /\ py = pt[2]
    \* begin() has run and claimed TIMER3
    /\ resync_flag = TRUE
    /\ rowComplete = 0
    /\ timer = TimerOrder[1]
    /\ period = FirstPeriod
    /\ dma = <<>>
    /\ phase = "begun"
    /\ held = {}
    /\ tried = <<TimerOrder[1]>>
    /\ beginRet = "void"
    /\ periods = <<>>
    /\ frameSrc = {}
    /\ lastOp = NoOp
    /\ written = <<>>
    /\ nOps = 0
    /\ fg = FgIdle
    /\ nTicks = 0

NextDraw ==
    \/ \E c \in DrawColours : DrawPixel(px, py, c)
    \/ \E c \in FillColours : FillScreen(c)
    \/ SwapBuffers
    \/ TickBounded

SpecDraw == InitDraw /\ [][NextDraw]_vars

(***************************************************************************)
(* Construction with an allocation that may fail, then begin() and ticks.   *)
(***************************************************************************)
\* initStatus = init(): -1 when malloc returns NULL, 0 otherwise.
InitStatusOf(allocated) == IF allocated THEN 0 ELSE 0 - 1

\* The constructor when malloc returns NULL: init() stores NULL in
\* front_buffer and returns before it touches a pin, the serial port, the
\* buffer, swap_requested or the cursor, which stay as they were.
ConstructFailed(x, y, d, dbl) ==
    LET w == Trunc32(x)
        h == Trunc32(y)
    IN  /\ width = w
        /\ height = h
        /\ row_size = RowSizeOf(w, h)
        /\ plane_size = PlaneSizeOf(w, h)
        /\ depth = d
        /\ double_buffer_enabled = dbl
        /\ mem = <<>>
        /\ front_buffer = 0
        /\ back_buffer \in {0, 64}
        /\ swap_requested \in BOOLEAN
        /\ row \in {0, LastRow}
        /\ plane = 0
        /\ initStatus = InitStatusOf(FALSE)
        /\ clr_level = 0
        /\ oe_level = 0
        /\ trace = <<>>

InitAlloc ==
    /\ \E sz \in PanelSizes, d \in 1 .. MaxDepth, dbl \in BOOLEAN,
          allocated \in BOOLEAN :
          IF allocated
          THEN Construct(sz[1], sz[2], d, dbl, 255)
          ELSE ConstructFailed(sz[1], sz[2], d, dbl)
    /\ px = 0
    /\ py = 0
    /\ resync_flag \in BOOLEAN
    /\ rowComplete \in Garbage
    /\ timer = NoTimer
    /\ period = 0
    /\ dma = <<>>
    /\ phase = "constructed"
    /\ held = {}
    /\ tried = <<>>
    /\ beginRet = "none"
    /\ periods = <<>>
    /\ frameSrc = {}
    /\ lastOp = NoOp
    /\ written = <<>>
    /\ nOps = 0
    /\ fg = FgIdle
    /\ nTicks = 0

NextAlloc ==
    \/ \E inUse \in InUseSets : Begin(inUse)
    \/ SwapBuffers
    \/ Resync
    \/ TickBounded
    \/ RowComplete

SpecAlloc == InitAlloc /\ [][NextAlloc]_vars

(***************************************************************************)
(* Pixels drawn in Color444 colours on the second panel row.                *)
(***************************************************************************)
\* Color444(r, g, b): ((r & 0xF) << 12) | ((g & 0xF) << 7) | ((b & 0xF) << 1)
Color444(r, g, b) ==
    BitOrN(BitOrN(Shl(And8(r, 15), 12), Shl(And8(g, 15), 7), 16),
           Shl(And8(b, 15), 1), 16) % 65536

\* The channel values drawn: each channel alone at full intensity.
Channels444 == {<<15, 0, 0>>, <<0, 15, 0>>, <<0, 0, 15>>}

\* The pixels drawn: the two ends of row 32, the first row of the second
\* panel row (out of bounds on a panel 32 rows high).
PixelPoints == {<<0, 32>>, <<31, 32>>}

InitPixel ==
    /\ \E sz \in PanelSizes, d \in 1 .. MaxDepth, dbl \in BOOLEAN :
          Construct(sz[1], sz[2], d, dbl, 255)
    /\ \E pt \in PixelPoints : px = pt[1] /\ py = pt[2]
    \* begin() has run and claimed TIMER3
    /\ resync_flag = TRUE
    /\ rowComplete = 0
    /\ timer = TimerOrder[1]
    /\ period = FirstPeriod
    /\ dma = <<>>
    /\ phase = "begun"
    /\ held = {}
    /\ tried = <<TimerOrder[1]>>
    /\ beginRet = "void"
    /\ periods = <<>>
    /\ frameSrc = {}
    /\ lastOp = NoOp
    /\ written = <<>>
    /\ nOps = 0
    /\ fg = FgIdle
    /\ nTicks = 0

NextPixel ==
    \/ \E ch \in Channels444 : DrawPixel(px, py, Color444(ch[1], ch[2], ch[3]))
    \/ SwapBuffers
    \/ TickBounded

SpecPixel == InitPixel /\ [][NextPixel]_vars

(***************************************************************************)
(* The refresh engine with its ticks numbered from begin().                 *)
(***************************************************************************)
\* The number of a tick, counted from 1 at the first tick after begin()
\* through two frames and then from 1 again (what a tick ships repeats
\* every 16*depth ticks).
TickNumber == IF nTicks = 32 * depth THEN 1 ELSE nTicks + 1

TickCounted ==
    /\ UpdateDisplay
    /\ nTicks' = TickNumber

NextCursor ==
    \/ \E inUse \in InUseSets : Begin(inUse)
    \/ SwapBuffers
    \/ Resync
    \/ TickCounted
    \/ RowComplete

SpecCursor == Init /\ [][NextCursor]_vars

(***************************************************************************)
(* The foreground calls taken one statement at a time, with the timer       *)
(* interrupt free to run between two statements.  Each statement that       *)
(* writes the buffer is two steps: it reads back_buffer and forms the       *)
(* address, then it stores.  memset and each of the two stamp loops of      *)
(* fillScreen are taken as one store (ticks inside them are not modelled).  *)
(***************************************************************************)
\* The rest of the driver's state, which no step of a foreground call changes.
fgFrame == <<cfgVars, ptrVars, curVars, hwVars, beginVars, frameVars, px, py,
             swap_requested, resync_flag, rowComplete, trace, nTicks>>

\* The number of plane blocks drawPixel runs.
DrawCount == Cardinality(DrawPlanes)

\* drawPixel(x, y, c) is entered: the bounds test and the mapping of x and y.
DrawEnter(x, y, c) ==
    /\ fg.pc = "idle"
    /\ nOps < MaxOps
    /\ nOps' = nOps + 1
    /\ lastOp' = <<"drawPixel", x, y, c, back_buffer>>
    /\ written' = <<>>
    /\ fg' = IF InBounds(x, y) /\ DrawCount > 0
             THEN [FgIdle EXCEPT !.pc = "drawAddr", !.c = c]
             ELSE FgIdle
    /\ UNCHANGED <<fgFrame, mem>>

\* The plane block fg.p reads back_buffer and forms its address.
DrawAddr ==
    /\ fg.pc = "drawAddr"
    /\ fg' = [fg EXCEPT !.pc = "drawStore",
                        !.w = PlaneWrite(lastOp[2], lastOp[3], fg.c, fg.p)]
    /\ UNCHANGED <<fgFrame, mem, lastOp, written, nOps>>

\* The plane block fg.p stores its byte.
DrawStore ==
    /\ fg.pc = "drawStore"
    /\ mem' = ApplyWrite(mem, fg.w)
    /\ written' = Append(written, fg.w)
    /\ fg' = [fg EXCEPT !.pc = IF fg.p + 1 < DrawCount THEN "drawAddr" ELSE "idle",
                        !.p = fg.p + 1,
                        !.bufs = fg.bufs \cup {BufferOf(fg.w[1])},
                        !.wr = <<fg.w[1], 1>>,
                        !.nw = fg.nw + 1]
    /\ UNCHANGED <<fgFrame, lastOp, nOps>>

\* fillScreen(c) is entered.
FillEnter(c) ==
    /\ fg.pc = "idle"
    /\ nOps < MaxOps
    /\ nOps' = nOps + 1
    /\ lastOp' = <<"fillScreen", 0, 0, c, back_buffer>>
    /\ written' = <<>>
    /\ fg' = [FgIdle EXCEPT !.pc = "fillAddr", !.c = c]
    /\ UNCHANGED <<fgFrame, mem>>

\* Iteration fg.p of the fill loop reads back_buffer and forms memset's target.
FillAddr ==
    /\ fg.pc = "fillAddr"
    /\ fg' = [fg EXCEPT !.pc = "fillSet",
                        !.w = <<back_buffer + FillPlane(depth, fg.p) * plane_size,
                                0, FillColor(fg.c, fg.p)>>]
    /\ UNCHANGED <<fgFrame, mem, lastOp, written, nOps>>

\* Iteration fg.p of the fill loop runs memset.
FillSet ==
    /\ fg.pc = "fillSet"
    /\ mem' = MemSet(mem, row_size, fg.w[1], fg.w[3], width * (height \div 2))
    /\ fg' = [fg EXCEPT !.pc = IF fg.p + 1 < depth THEN "fillAddr" ELSE "stampAddr",
                        !.p = IF fg.p + 1 < depth THEN fg.p + 1 ELSE 6,
                        !.bufs = fg.bufs \cup {BufferOf(fg.w[1])},
                        !.wr = <<fg.w[1], width * (height \div 2)>>,
                        !.nw = fg.nw + 1]
    /\ UNCHANGED <<fgFrame, lastOp, written, nOps>>

\* The stamp loop of bit fg.p (6, then 7) reads back_buffer.
StampBase ==
    /\ fg.pc = "stampAddr"
    /\ fg' = [fg EXCEPT !.pc = "stampRun", !.w = <<back_buffer, 0, 0>>]
    /\ UNCHANGED <<fgFrame, mem, lastOp, written, nOps>>

\* The stamp loop of bit fg.p runs: it writes the last byte of each of the
\* 16*depth rows from its base on, so of every row in the range fg.wr.
StampRun ==
    /\ fg.pc = "stampRun"
    /\ mem' = StampLoop(mem, fg.w[1], depth, row_size, fg.p)
    /\ fg' = [fg EXCEPT !.pc = IF fg.p = 6 THEN "stampAddr" ELSE "idle",
                        !.p = fg.p + 1,
                        !.bufs = fg.bufs \cup {BufferOf(fg.w[1])},
                        !.wr = <<fg.w[1], 16 * depth * row_size>>,
                        !.nw = fg.nw + 1]
    /\ UNCHANGED <<fgFrame, lastOp, written, nOps>>

\* swapBuffers() is a foreground call too: it runs between two other calls.
SwapBetweenCalls ==
    /\ fg.pc = "idle"
    /\ SwapBuffers

\* A tick that fires after the burst of the tick before it has completed.
TickAfterBurst ==
    /\ dma = <<>>
    /\ TickBounded

\* The pixels drawn: the first pixel of the first row, and a pixel of the
\* lower half.
TearPoints == {<<0, 0>>, <<31, 16>>}

\* drawPixel and fillScreen on a double-buffered panel after begin(), with
\* swap requests, ticks and burst completions between their steps.
InitTear ==
    /\ \E sz \in PanelSizes, d \in 1 .. MaxDepth :
          Construct(sz[1], sz[2], d, TRUE, 255)
    /\ \E pt \in TearPoints : px = pt[1] /\ py = pt[2]
    \* begin() has run and claimed TIMER3
    /\ resync_flag = TRUE
    /\ rowComplete = 0
    /\ timer = TimerOrder[1]
    /\ period = FirstPeriod
    /\ dma = <<>>
    /\ phase = "begun"
    /\ held = {}
    /\ tried = <<TimerOrder[1]>>
    /\ beginRet = "void"
    /\ periods = <<>>
    /\ frameSrc = {}
    /\ lastOp = NoOp
    /\ written = <<>>
    /\ nOps = 0
    /\ fg = FgIdle
    /\ nTicks = 0

NextTear ==
    \/ \E c \in FillColours : DrawEnter(px, py, c)
    \/ DrawAddr
    \/ DrawStore
    \/ \E c \in FillColours : FillEnter(c)
    \/ FillAddr
    \/ FillSet
    \/ StampBase
    \/ StampRun
    \/ SwapBetweenCalls
    \/ TickAfterBurst
    \/ RowComplete

SpecTear == InitTear /\ [][NextTear]_vars

(***************************************************************************)
(* Properties of the pixel encoder.                                         *)
(***************************************************************************)
\* The last foreground call was drawPixel with coordinates in bounds.
DrewInBounds ==
    /\ lastOp[1] = "drawPixel"
    /\ lastOp[2] >= 0 /\ lastOp[2] < width
    /\ lastOp[3] >= 0 /\ lastOp[3] < height

\* The reference mapping of a pixel: its row within the panel after the
\* serpentine flip, and its column in the chain.
RefYInt(y) == IF (y \div 32) % 2 = 1 THEN 31 - (y % 32) ELSE y % 32
RefColumn(x, y) ==
    IF (y \div 32) % 2 = 1
    THEN (width - 1 - (x % width)) + (y \div 32) * width
    ELSE (x % width) + (y \div 32) * width

\* The reference decoder: the <<R, G, B>> stored for pixel (x, y) in plane
\* p of the buffer at base.
RefTriple(base, x, y, p) ==
    LET b == Load(mem, row_size,
                  base + p * plane_size + (RefYInt(y) % 16) * row_size
                  + RefColumn(x, y))
        sh == IF RefYInt(y) < 16 THEN 3 ELSE 0
    IN  <<Bit(b, sh + 2), Bit(b, sh + 1), Bit(b, sh)>>

\* C2: in both buffers bits 6 and 7 are 1 in every byte at offset
\* k*row_size - 1 (k in 1..16*D) and 0 in every other byte.
C2_ControlBits ==
    \A base \in {front_buffer, back_buffer} :
        \A k \in 0 .. (depth * plane_size - 1) :
            (Load(mem, row_size, base + k) \div 64)
              = IF (k + 1) % row_size = 0 THEN 3 ELSE 0

\* C2 witness: after an exchange, a second write went to the last byte of
\* a row, the byte that carries the control bits.
C2_Witness ==
    /\ double_buffer_enabled
    /\ front_buffer = 0
    /\ nOps = 2
    /\ written # <<>>
    /\ (written[1][1] + 1) % row_size = 0
    /\ written[1][3] # 0

\* C5: after drawPixel(x, y, c) in bounds, plane p holds for that pixel
\* the triple (bit 15-p, bit 10-p, bit 4-p) of c, for every p below D,
\* whatever the buffer held before.
C5_ColourRoundTrip ==
    DrewInBounds =>
        \A p \in 0 .. (depth - 1) :
            RefTriple(lastOp[5], lastOp[2], lastOp[3], p)
              = <<Bit(lastOp[4], 15 - p), Bit(lastOp[4], 10 - p),
                  Bit(lastOp[4], 4 - p)>>

\* C5 witness: a pixel of the flipped panel redrawn over other content, in
\* four planes.
C5_Witness ==
    /\ DrewInBounds
    /\ nOps = 2
    /\ depth = 4
    /\ lastOp[3] >= 32
    /\ lastOp[4] = 28025

\* C6: drawPixel(x, y, c) in bounds writes, in each of the D planes, the
\* byte at row (y_int' mod 16) and column x' of the plane, x' and y_int'
\* as the serpentine mapping gives them; it writes bits 3..5 when
\* y_int' < 16 and bits 0..2 otherwise, and x' is below row_size.
C6_Topology ==
    DrewInBounds =>
        LET x == lastOp[2]
            y == lastOp[3]
        IN  /\ Len(written) = depth
            /\ RefColumn(x, y) < row_size
            /\ \A p \in 0 .. (depth - 1) :
                  /\ written[p + 1][1]
                       = lastOp[5] + p * plane_size
                         + (RefYInt(y) % 16) * row_size + RefColumn(x, y)
                  /\ 255 - written[p + 1][2]
                       = IF RefYInt(y) < 16 THEN 56 ELSE 7
                  /\ And8(written[p + 1][3], written[p + 1][2]) = 0

\* C6 witness: a pixel on the odd panel row, in the lower half after the
\* flip.
C6_Witness ==
    /\ DrewInBounds
    /\ lastOp[3] = 32
    /\ written[1][2] = 248

\* The byte C7 states for plane p: the triple of bits 15-p, 10-p, 4-p of c
\* in both halves.
RefFillByte(c, p) ==
    9 * (4 * Bit(c, 15 - p) + 2 * Bit(c, 10 - p) + Bit(c, 4 - p))

\* C7: fillScreen(c) leaves in plane p of the back buffer, in every byte,
\* the triple of bits 15-p, 10-p, 4-p of c in both halves, plus the
\* control bits on the last byte of each row.
C7_FillEqualsDraw ==
    lastOp[1] = "fillScreen" =>
        \A k \in 0 .. (depth * plane_size - 1) :
            Load(mem, row_size, lastOp[5] + k)
              = RefFillByte(lastOp[4], k \div plane_size)
                + (IF (k + 1) % row_size = 0 THEN 192 ELSE 0)

(***************************************************************************)
(* Properties of the refresh engine.                                        *)
(***************************************************************************)
\* A step is a run of updateDisplay exactly when it replaces the trace.
Ticked == trace # <<>> /\ trace[1] = <<"oe", 1, 0>>

TraceOf(kind) == SelectSeq(trace, LAMBDA e : e[1] = kind)
TraceOfNext(kind) == SelectSeq(trace', LAMBDA e : e[1] = kind)

\* C1: in double-buffered mode the front pointer changes only in the tick
\* that finds the cursor at (15, D-1) and wraps it to (0, 0), and all the
\* bursts of one frame are sourced from one buffer.
C1_SwapOnlyAtFrameStart ==
    /\ [][(double_buffer_enabled /\ front_buffer' # front_buffer)
            => (/\ trace' # trace
                /\ row = 15 /\ plane = depth - 1
                /\ row' = 0 /\ plane' = 0)]_vars
    /\ [](double_buffer_enabled => Cardinality(frameSrc) <= 1)

\* C1 witness: a complete frame of 16*D bursts shipped after an exchange.
C1_Witness ==
    /\ double_buffer_enabled
    /\ depth = MaxDepth
    /\ front_buffer = 0
    /\ Len(periods) = 16 * depth
    /\ frameSrc = {0}

\* C3: every tick starts exactly one burst, of row_size bytes, at
\* front + plane*plane_size + row*row_size for the cursor and the front
\* pointer the tick leaves, and the burst lies inside the front buffer.
C3_OneBurstPerTick ==
    Ticked =>
        LET spi == TraceOf("spi")
        IN  /\ Len(spi) = 1
            /\ spi[1][3] = row_size
            /\ spi[1][2] = front_buffer + plane * plane_size + row * row_size
            /\ spi[1][2] >= front_buffer
            /\ spi[1][2] + spi[1][3] <= front_buffer + depth * plane_size
            /\ dma \in {<<>>, <<spi[1][2], spi[1][3]>>}

\* C3 witness: the burst of the last row of the last plane, after an exchange.
C3_Witness ==
    /\ Ticked
    /\ double_buffer_enabled
    /\ front_buffer = 0
    /\ row = 15
    /\ plane = depth - 1
    /\ depth > 1
    /\ dma # <<>>

\* The schedule C4 states: 16 periods of 74*2^(D-1), then 16 of 74*2^(D-2),
\* ..., then 16 of 74.
BcmSchedule(d) == [i \in 1 .. (16 * d) |-> 74 * (2 ^ (d - 1 - ((i - 1) \div 16)))]

\* C4: the periods programmed by the 16*D ticks of a frame, from its
\* frame-start tick on, are the BCM schedule.
C4_FramePeriods ==
    Len(periods) = 16 * depth => periods = BcmSchedule(depth)

\* C8: in double-buffered mode a swap request is honoured at the first
\* frame-start tick after it, at most 16*D ticks later (a frame-start tick
\* comes at least every 16*D ticks): that tick exchanges front and back
\* once, however many requests were made, clears the flag and sources its
\* burst from the buffer that was the back buffer; no earlier tick touches
\* the pointers or the flag.
C8_SwapHonoured ==
    /\ [](Ticked => Len(periods) \in 1 .. (16 * depth))
    /\ [][(double_buffer_enabled /\ swap_requested /\ trace' # trace)
            => IF row = 15 /\ plane = depth - 1
               THEN /\ front_buffer' = back_buffer
                    /\ back_buffer' = front_buffer
                    /\ ~swap_requested'
                    /\ \A e \in {TraceOfNext("spi")[i] : i \in 1 .. Len(TraceOfNext("spi"))} :
                          /\ e[2] >= back_buffer
                          /\ e[2] + e[3] <= back_buffer + depth * plane_size
               ELSE /\ swap_requested'
                    /\ front_buffer' = front_buffer
                    /\ back_buffer' = back_buffer]_vars
    /\ ((double_buffer_enabled /\ swap_requested /\ timer # NoTimer)
           ~> ~swap_requested)

\* C8 witness: a tick has just honoured a request, and it was not the
\* first exchange.
C8_Witness ==
    /\ double_buffer_enabled
    /\ Ticked
    /\ TraceOf("swap") # <<>>
    /\ ~swap_requested
    /\ front_buffer # 0

\* C9: a tick pulses the clear pin, low then high and once, exactly when it
\* finds the cursor at the frame boundary and a resync pending, and it
\* clears the flag then; any other tick leaves pin and flag alone.
C9_ResyncPulse ==
    [][trace' # trace
        => IF row = 15 /\ plane = depth - 1 /\ resync_flag
           THEN /\ TraceOfNext("clr") = <<EvClr(0), EvClr(1)>>
                /\ ~resync_flag'
           ELSE /\ TraceOfNext("clr") = <<>>
                /\ resync_flag' = resync_flag]_vars

\* C9 witness: a frame-boundary tick after the first one has pulsed the pin.
C9_Witness ==
    /\ Ticked
    /\ TraceOf("clr") = <<EvClr(0), EvClr(1)>>
    /\ rowComplete = 1
    /\ dma # <<>>

\* C10: begin() tries TIMER3..TIMER7 in that order, claims the first one
\* that is free and tries none after it; when all five are held its
\* return value reports the failure and no tick ever runs.
C10_BeginReports ==
    phase = "begun" =>
        /\ \E n \in 1 .. 5 :
              /\ tried = SubSeq(<<3, 4, 5, 6, 7>>, 1, n)
              /\ \A i \in 1 .. (n - 1) : tried[i] \in held
              /\ n < 5 => tried[n] \notin held
              /\ timer = IF tried[n] \in held THEN NoTimer ELSE tried[n]
        /\ ({3, 4, 5, 6, 7} \subseteq held =>
              /\ beginRet \notin {"void", "none"}
              /\ ~Ticked
              /\ dma = <<>>)

(***************************************************************************)
(* Properties of a failed construction.                                     *)
(***************************************************************************)
\* C11: when the allocation fails (there is no buffer) initStatus is not 0,
\* while a successful construction leaves it 0; no pin was driven by
\* init, and no tick ever runs and no serial burst is ever started, also
\* after begin().
C11_AllocFailureInert ==
    /\ (mem # <<>> => initStatus = 0)
    /\ (mem = <<>> =>
           /\ initStatus # 0
           /\ TraceOf("clr") = <<>>
           /\ TraceOf("spi") = <<>>
           /\ dma = <<>>)

(***************************************************************************)
(* The scenario of the second panel row.                                    *)
(***************************************************************************)
\* The last call was drawPixel(0, 32, 0xF000) on a 32x64 panel of depth 3
\* (0xF000 is Color444(15, 0, 0)).
DrewScenario ==
    /\ width = 32 /\ height = 64 /\ depth = 3
    /\ lastOp[1] = "drawPixel" /\ lastOp[2] = 0 /\ lastOp[3] = 32
    /\ lastOp[4] = 61440

\* C12 as stated: the call writes the plane-0 byte at row 15, column 2W-2,
\* as a lower-half pixel (y_int = 31), and sets bit 2 of that byte.
C12_ColumnBeforeControlByte ==
    DrewScenario =>
        /\ written[1][1] = lastOp[5] + 15 * row_size + (2 * width - 2)
        /\ written[1][2] = 248
        /\ Bit(Load(mem, row_size, lastOp[5] + 15 * row_size + (2 * width - 2)), 2) = 1

\* C12 amended: the call writes the plane-0 byte at row 15, column 2W-1,
\* the last byte of the row (the byte that also carries the control bits),
\* as a lower-half pixel (y_int = 31), and sets bit 2 of that byte.
C12_LastColumn ==
    DrewScenario =>
        /\ written[1][1] = lastOp[5] + 15 * row_size + (2 * width - 1)
        /\ written[1][2] = 248
        /\ Bit(Load(mem, row_size, lastOp[5] + 15 * row_size + (2 * width - 1)), 2) = 1
        /\ Load(mem, row_size, lastOp[5] + 15 * row_size + (2 * width - 1)) \div 64 = 3

\* C12 witness: the scenario drawn over a green pixel, after an exchange.
C12_Witness ==
    /\ DrewScenario
    /\ double_buffer_enabled
    /\ front_buffer = 0
    /\ nOps = 2

(***************************************************************************)
(* The frame of drawPixel.                                                  *)
(***************************************************************************)
\* The addresses C13 lets drawPixel(x, y, c) change: one byte in each of
\* the D planes of the buffer at base.
RefTargets(base, x, y) ==
    {base + p * plane_size + (RefYInt(y) % 16) * row_size + RefColumn(x, y) :
        p \in 0 .. (depth - 1)}

\* The bits of a target byte C13 lets the call change: 3..5 for the upper
\* half, 0..2 for the lower half.
RefTripleMask(y) == IF RefYInt(y) < 16 THEN 56 ELSE 7

\* C13: a drawPixel call out of bounds changes nothing; a call in bounds
\* changes at most the three colour bits of the addressed half in the one
\* target byte of each of the D planes of the back buffer; every other
\* bit and byte (the front buffer with them), the pointers, the cursor and
\* the pending flags stay as they were.
C13_DrawPixelFrame ==
    [][(nOps' # nOps /\ lastOp'[1] = "drawPixel")
        => LET x == lastOp'[2]
               y == lastOp'[3]
               inb == x >= 0 /\ x < width /\ y >= 0 /\ y < height
               targets == IF inb THEN RefTargets(back_buffer, x, y) ELSE {}
           IN  /\ UNCHANGED <<front_buffer, back_buffer, row, plane,
                              swap_requested, resync_flag>>
               /\ DOMAIN mem' = DOMAIN mem
               /\ \A r \in DOMAIN mem :
                     IF \A a \in targets : a \div row_size # r
                     THEN mem'[r] = mem[r]
                     ELSE \A k \in 0 .. (row_size - 1) :
                             IF (r * row_size + k) \in targets
                             THEN And8(mem'[r][k], 255 - RefTripleMask(y))
                                    = And8(mem[r][k], 255 - RefTripleMask(y))
                             ELSE mem'[r][k] = mem[r][k]
               /\ \A a \in targets :
                     a >= back_buffer /\ a < back_buffer + depth * plane_size]_vars

\* C13 witness: a lower-half pixel drawn into a byte whose upper half
\* holds colour from an earlier fill.
C13_Witness ==
    /\ lastOp[1] = "drawPixel"
    /\ written # <<>>
    /\ written[1][2] = 248
    /\ (Load(mem, row_size, written[1][1]) \div 8) % 8 # 0
    /\ double_buffer_enabled

(***************************************************************************)
(* The order of the steps of a tick.                                        *)
(***************************************************************************)
\* The kinds of the collaborator calls of the last tick, in order.
TraceKinds == [i \in 1 .. Len(trace) |-> trace[i][1]]

\* C14: a tick drives output-enable inactive (high) first, then pulses the
\* clear line and then exchanges the pointers (either only on a tick that
\* found the cursor at the frame boundary), then reprograms the timer,
\* advances the cursor, starts the burst, and drives output-enable active
\* (low) last; so pulse, exchange and cursor change lie between the two
\* output-enable writes.
C14_TickOrder ==
    Ticked =>
        /\ TraceKinds \in
              {<<"oe", "timer", "cursor", "spi", "oe">>,
               <<"oe", "clr", "clr", "timer", "cursor", "spi", "oe">>,
               <<"oe", "swap", "timer", "cursor", "spi", "oe">>,
               <<"oe", "clr", "clr", "swap", "timer", "cursor", "spi", "oe">>}
        /\ trace[1] = <<"oe", 1, 0>>
        /\ trace[Len(trace)] = <<"oe", 0, 0>>
        /\ TraceOf("clr") \in {<<>>, <<<<"clr", 0, 0>>, <<"clr", 1, 0>>>>}
        /\ (Len(trace) > 5 => TraceOf("cursor") = <<<<"cursor", 0, 0>>>>)
        /\ TraceOf("cursor") = <<<<"cursor", row, plane>>>>
        /\ oe_level = 0

\* C14 witness: a frame-boundary tick of a later frame (an earlier burst
\* has completed, its own is in flight) that pulsed the clear line and
\* exchanged the pointers.
C14_Witness ==
    /\ Ticked
    /\ Len(trace) = 8
    /\ rowComplete = 1
    /\ dma # <<>>
    /\ front_buffer # 0

(***************************************************************************)
(* The cursor.                                                              *)
(***************************************************************************)
\* C15: row is in 0..15 and plane in 0..D-1; the k-th tick after begin()
\* leaves the cursor at, and ships, plane ((k-1) div 16) mod D and row
\* (k-1) mod 16, so the first tick ships (plane 0, row 0) and 16*D
\* consecutive ticks ship every pair once, rows ascending within a plane
\* and planes ascending within a frame.
C15_CursorSchedule ==
    /\ row \in 0 .. 15
    /\ plane \in 0 .. (depth - 1)
    /\ Ticked =>
          /\ nTicks \in 1 .. (32 * depth)
          /\ plane = ((nTicks - 1) \div 16) % depth
          /\ row = (nTicks - 1) % 16
          /\ TraceOf("spi")
               = <<<<"spi",
                     front_buffer
                       + (((nTicks - 1) \div 16) % depth) * plane_size
                       + ((nTicks - 1) % 16) * row_size,
                     row_size>>>>

\* C15 witness: the first tick of the second frame, at depth 3.
C15_Witness ==
    /\ Ticked
    /\ depth = 3
    /\ nTicks = 16 * depth + 1
    /\ row = 0
    /\ plane = 0

(***************************************************************************)
(* The two pointers.                                                        *)
(***************************************************************************)
\* The size of the allocation, in bytes.
AllocatedBytes == Cardinality(DOMAIN mem) * row_size

\* C16: double-buffered, front and back are the two halves of the
\* allocation, D*plane_size bytes each, in either order; single-buffered,
\* they are the same pointer to the D*plane_size bytes allocated, no swap
\* is ever pending and no step changes either pointer.
C16_PointerLayout ==
    /\ [](IF double_buffer_enabled
          THEN /\ AllocatedBytes = 2 * depth * plane_size
               /\ front_buffer # back_buffer
               /\ {front_buffer, back_buffer} = {0, depth * plane_size}
          ELSE /\ AllocatedBytes = depth * plane_size
               /\ front_buffer = back_buffer
               /\ front_buffer = 0
               /\ ~swap_requested)
    /\ [][~double_buffer_enabled
            => front_buffer' = front_buffer /\ back_buffer' = back_buffer]_vars

\* C16 witness: after an exchange the halves have traded places, and a
\* further request is pending.
C16_Witness ==
    /\ double_buffer_enabled
    /\ front_buffer = 0
    /\ back_buffer = depth * plane_size
    /\ swap_requested
    /\ rowComplete = 1

(***************************************************************************)
(* The period of each row.                                                  *)
(***************************************************************************)
\* C18: the period a tick programs is 74 * 2^(D-1-p), p being the plane of
\* the row whose burst that tick starts (the plane the tick leaves the
\* cursor at).
C18_PeriodOfShippedPlane ==
    Ticked =>
        /\ TraceOf("timer") = <<<<"timer", 74 * (2 ^ (depth - 1 - plane)), 0>>>>
        /\ period = 74 * (2 ^ (depth - 1 - plane))

(***************************************************************************)
(* Foreground writes against the refresh.                                   *)
(***************************************************************************)
\* C17: double-buffered and with every burst complete before the next
\* tick, no write of drawPixel or fillScreen lands in the byte range of a
\* burst in flight; and at a tick that exchanges the pointers no burst is
\* in flight.
C17_NoWriteUnderBurst ==
    [][/\ (double_buffer_enabled /\ fg'.nw # fg.nw /\ fg'.nw > 0 /\ dma # <<>>)
          => (\/ fg'.wr[1] + fg'.wr[2] <= dma[1]
              \/ dma[1] + dma[2] <= fg'.wr[1])
       /\ (double_buffer_enabled /\ front_buffer' # front_buffer)
          => dma = <<>>]_vars

\* C19: double-buffered, all the writes of one drawPixel call, and all the
\* fills and stamps of one fillScreen call, land in one buffer, also when
\* a tick exchanges the pointers between two of them.
C19_CallWritesOneBuffer ==
    double_buffer_enabled => Cardinality(fg.bufs) <= 1

=============================================================================
